---- MODULE Spec2Model ----
(***************************************************************************)
(* Passport processing (04-passport-processing/src/lib.rs): the line       *)
(* reader read_from_file, the tokenizer Passport::process and the          *)
(* validators Passport::validate / validate_simplified.                    *)
(*                                                                         *)
(* A text (Rust &str / String) is a sequence of one-character strings.     *)
(* A u32 is the pair [hi, lo] with value hi * Limb + lo, so that the       *)
(* whole 32-bit range is represented exactly.                              *)
(***************************************************************************)
EXTENDS Integers, Sequences, FiniteSets, TLC

VARIABLES
    lines,      \* read_from_file: the lines read_file returned
    pc,         \* position of the running operation
    idx,        \* read_from_file: index of the next line of `for line in lines`
    state,      \* read_from_file: ReadState
    passports,  \* read_from_file: Vec<Passport> being built
    passport,   \* the Passport being built (its `fields` map)
    perr,       \* the value Passport::process last returned on failure
    result,     \* what the last call returned (read_from_file, process, validate)
    hist,       \* the lines the current Passport has processed successfully
    last        \* the argument of the last Passport::process call

vars == <<lines, pc, idx, state, passports, passport, perr, result, hist, last>>

-----------------------------------------------------------------------------
(* Characters *)

DigitChars == {"0", "1", "2", "3", "4", "5", "6", "7", "8", "9"}

\* char::is_whitespace restricted to the characters used here
WhiteChars == {" ", "\t", "\r"}

\* regex \w restricted to ASCII: letters, digits, underscore
WordChars ==
    DigitChars \cup
    {"a", "b", "c", "d", "e", "f", "g", "h", "i", "j", "k", "l", "m", "n",
     "o", "p", "q", "r", "s", "t", "u", "v", "w", "x", "y", "z", "_"}

HexChars == DigitChars \cup {"a", "b", "c", "d", "e", "f"}

DigitVal(c) ==
    CASE c = "0" -> 0 [] c = "1" -> 1 [] c = "2" -> 2 [] c = "3" -> 3
      [] c = "4" -> 4 [] c = "5" -> 5 [] c = "6" -> 6 [] c = "7" -> 7
      [] c = "8" -> 8 [] c = "9" -> 9

DigitChar(d) ==
    CASE d = 0 -> "0" [] d = 1 -> "1" [] d = 2 -> "2" [] d = 3 -> "3"
      [] d = 4 -> "4" [] d = 5 -> "5" [] d = 6 -> "6" [] d = 7 -> "7"
      [] d = 8 -> "8" [] d = 9 -> "9"

AllIn(s, C) == \A i \in 1..Len(s) : s[i] \in C

-----------------------------------------------------------------------------
(* u32 *)

\* A u32 n is [hi, lo] with n = hi * 100000 + lo and 0 <= lo < 100000;
\* u32::MAX = 4294967295 is [hi |-> 42949, lo |-> 67295].
U32(n) == [hi |-> n \div 100000, lo |-> n % 100000]

\* a <= b on u32
U32Le(a, b) == a.hi < b.hi \/ (a.hi = b.hi /\ a.lo <= b.lo)

\* lo..hi in place of lo..=hi
RangeContains_exclusive(lo, hi, val) ==
    U32Le(U32(lo), val) /\ U32Le(val, U32(hi)) /\ val # U32(hi)

\* (lo..=hi).contains(&val)
RangeContains(lo, hi, val) == U32Le(U32(lo), val) /\ U32Le(val, U32(hi))

\* checked_mul(10) then checked_add(d): not ok when the result exceeds u32::MAX
U32MulAdd(v, d) ==
    LET low == v.lo * 10 + d
        nhi == v.hi * 10 + (low \div 100000)
        nlo == low % 100000
    IN  IF nhi > 42949 \/ (nhi = 42949 /\ nlo > 67295)
        THEN [ok |-> FALSE, val |-> U32(0)]
        ELSE [ok |-> TRUE, val |-> [hi |-> nhi, lo |-> nlo]]

RECURSIVE ParseDigits(_, _)
\* the digit loop of <u32 as FromStr>::from_str, acc the value so far
ParseDigits(s, acc) ==
    IF s = <<>> THEN [ok |-> TRUE, val |-> acc]
    ELSE IF Head(s) \notin DigitChars THEN [ok |-> FALSE, val |-> U32(0)]
    ELSE LET nxt == U32MulAdd(acc, DigitVal(Head(s)))
         IN  IF nxt.ok THEN ParseDigits(Tail(s), nxt.val) ELSE nxt

\* str::parse::<u32>(): an empty text, a lone sign, a '-' or any non-digit is an
\* error; one leading '+' is accepted; a value above u32::MAX is an error
parse_u32(s) ==
    IF s = <<>> THEN [ok |-> FALSE, val |-> U32(0)]
    ELSE IF Len(s) = 1 /\ Head(s) \in {"+", "-"} THEN [ok |-> FALSE, val |-> U32(0)]
    ELSE IF Head(s) = "+" THEN ParseDigits(Tail(s), U32(0))
    ELSE ParseDigits(s, U32(0))

RECURSIVE NatDigits(_)
\* decimal digits of a natural number, no leading zeros
NatDigits(n) ==
    IF n < 10 THEN <<DigitChar(n)>>
    ELSE Append(NatDigits(n \div 10), DigitChar(n % 10))

\* the low limb written with exactly five digits
LimbDigits(n) ==
    <<DigitChar(n \div 10000), DigitChar((n \div 1000) % 10),
      DigitChar((n \div 100) % 10), DigitChar((n \div 10) % 10), DigitChar(n % 10)>>

\* u32::to_string()
U32ToString(v) ==
    IF v.hi = 0 THEN NatDigits(v.lo) ELSE NatDigits(v.hi) \o LimbDigits(v.lo)

-----------------------------------------------------------------------------
(* Text splitting *)

RECURSIVE TrimStart(_)
TrimStart(s) ==
    IF s # <<>> /\ Head(s) \in WhiteChars THEN TrimStart(Tail(s)) ELSE s

RECURSIVE TrimEnd(_)
TrimEnd(s) ==
    IF s # <<>> /\ s[Len(s)] \in WhiteChars
    THEN TrimEnd(SubSeq(s, 1, Len(s) - 1)) ELSE s

\* str::trim()
trim(s) == TrimEnd(TrimStart(s))

RECURSIVE SplitRuns(_, _, _)
\* Regex::split for the pattern \s+ : acc holds the pieces so far, the last one
\* still open; inRun says the previous character belonged to a separator.
\* A separator at the start or the end leaves an empty piece there.
SplitRuns(s, acc, inRun) ==
    IF s = <<>> THEN acc
    ELSE IF Head(s) \in WhiteChars
         THEN SplitRuns(Tail(s), IF inRun THEN acc ELSE Append(acc, <<>>), TRUE)
         ELSE SplitRuns(Tail(s),
                        [acc EXCEPT ![Len(acc)] = Append(@, Head(s))], FALSE)

\* SPACES.split(line).collect()
SPACES_split(line) == SplitRuns(line, << <<>> >>, FALSE)

RECURSIVE SplitOn(_, _, _)
SplitOn(s, c, acc) ==
    IF s = <<>> THEN acc
    ELSE IF Head(s) = c
         THEN SplitOn(Tail(s), c, Append(acc, <<>>))
         ELSE SplitOn(Tail(s), c, [acc EXCEPT ![Len(acc)] = Append(@, Head(s))])

\* key_val.split(':').collect(): every colon separates, so there are as many
\* pieces as colons plus one
split_colon(key_val) == SplitOn(key_val, ":", << <<>> >>)

-----------------------------------------------------------------------------
(* Keys, fields, errors *)

byr == <<"b", "y", "r">>
eyr == <<"e", "y", "r">>
iyr == <<"i", "y", "r">>
ecl == <<"e", "c", "l">>
hcl == <<"h", "c", "l">>
hgt == <<"h", "g", "t">>
pid == <<"p", "i", "d">>
cid == <<"c", "i", "d">>

PASSPORT_REQ_KEYS == <<byr, eyr, iyr, ecl, hcl, hgt, pid>>

\* enum PassportField
Num(v) == [tag |-> "Num", num |-> v, str |-> <<>>]
Str(s) == [tag |-> "Str", num |-> U32(0), str |-> s]

\* enum PassportProcessError
NoError == [kind |-> "None", text |-> <<>>]
UnknownKey(s) == [kind |-> "UnknownKey", text |-> s]
UnparsableU32(s) == [kind |-> "UnparsableU32", text |-> s]

\* enum PassportInvalid
MissingField(k) == [kind |-> "MissingField", key |-> k, val |-> <<>>]
OutOfRange(k, v) == [kind |-> "OutOfRange", key |-> k, val |-> v]
InvalidFormat(k, v) == [kind |-> "InvalidFormat", key |-> k, val |-> v]

\* Passport::new(): the empty HashMap
NewFields == [k \in {} |-> Str(<<>>)]

\* HashMap::insert: one entry per key, the new value replaces the old one
insert_keep_first(fields, key, val) ==
    [k \in DOMAIN fields \cup {key} |-> IF k \in DOMAIN fields THEN fields[k] ELSE val]

insert(fields, key, val) ==
    [k \in DOMAIN fields \cup {key} |-> IF k = key THEN val ELSE fields[k]]

-----------------------------------------------------------------------------
(* Passport::process *)

\* What process returns: Ok(self), Err(e), or the panic of an index out of
\* bounds. `self` is moved into the call, so only Ok gives a record back.
ProcOk(fields) == [tag |-> "Ok", fields |-> fields, err |-> NoError]
ProcErr(e) == [tag |-> "Err", fields |-> NewFields, err |-> e]
ProcPanic == [tag |-> "Panic", fields |-> NewFields, err |-> NoError]

\* the arm `_ => return Err(UnknownKey(vec[0]))`
unknown_key_ignored(fields, vec) == ProcOk(fields)

unknown_key(fields, vec) == ProcErr(UnknownKey(vec[1]))

\* the value text the arms read: Rust's vec[1], the piece between the first
\* and the second colon
value_text(vec) == vec[2]

\* one iteration of `for key_val in key_vals` (Rust's vec[0] is vec[1] here,
\* Rust's vec[1] is vec[2] and does not exist when the token has no colon)
process_token(fields, key_val) ==
    LET vec == split_colon(key_val)
    IN  IF vec[1] \in {byr, eyr, iyr}
        THEN IF Len(vec) < 2 THEN ProcPanic
             ELSE LET val == parse_u32(value_text(vec))
                  IN  IF val.ok
                      THEN ProcOk(insert(fields, vec[1], Num(val.val)))
                      ELSE ProcErr(UnparsableU32(value_text(vec)))
        ELSE IF vec[1] \in {ecl, hcl, hgt, pid, cid}
        THEN IF Len(vec) < 2 THEN ProcPanic
             ELSE ProcOk(insert(fields, vec[1], Str(value_text(vec))))
        ELSE unknown_key(fields, vec)

RECURSIVE process_tokens(_, _)
\* the loop over key_vals: `?` and `return Err` leave at the first failure
process_tokens(fields, key_vals) ==
    IF key_vals = <<>> THEN ProcOk(fields)
    ELSE LET r == process_token(fields, Head(key_vals))
         IN  IF r.tag = "Ok" THEN process_tokens(r.fields, Tail(key_vals)) ELSE r

\* Passport::process(self, line)
process(fields, line) == process_tokens(fields, SPACES_split(line))

-----------------------------------------------------------------------------
(* Passport::validate_simplified, Passport::validate *)

ECL_VALS ==
    {<<"a", "m", "b">>, <<"b", "l", "u">>, <<"b", "r", "n">>, <<"g", "r", "y">>,
     <<"g", "r", "n">>, <<"h", "z", "l">>, <<"o", "t", "h">>}

UNIT_CM == <<"c", "m">>
UNIT_IN == <<"i", "n">>

\* HGT_REGEX.captures(val) for ^(\d+)(\w+)$ : \d+ is greedy, so group 1 is the
\* longest digit prefix that leaves a non-empty rest of word characters
HGT_REGEX_captures(val) ==
    LET cuts == {k \in 1..(Len(val) - 1) :
                    /\ AllIn(SubSeq(val, 1, k), DigitChars)
                    /\ AllIn(SubSeq(val, k + 1, Len(val)), WordChars)}
    IN  IF cuts = {}
        THEN [matched |-> FALSE, measure |-> <<>>, unit |-> <<>>]
        ELSE LET k == CHOOSE c \in cuts : \A d \in cuts : d <= c
             IN  [matched |-> TRUE, measure |-> SubSeq(val, 1, k),
                  unit |-> SubSeq(val, k + 1, Len(val))]

\* HCL_REGEX.is_match(val) for ^#[0-9a-f]{6}$
HCL_REGEX_is_match(val) ==
    Len(val) = 7 /\ val[1] = "#" /\ AllIn(SubSeq(val, 2, 7), HexChars)

\* PID_REGEX.is_match(val) for ^\d{9}$
PID_REGEX_is_match(val) == Len(val) = 9 /\ AllIn(val, DigitChars)

\* the arm `Some(Str(val)) if key == "hgt"`: the violations it pushes
validate_hgt(key, val) ==
    LET cap == HGT_REGEX_captures(val)
        hgt_val == parse_u32(cap.measure)
    IN  IF ~cap.matched THEN <<InvalidFormat(key, val)>>
        ELSE (IF cap.unit # UNIT_CM /\ cap.unit # UNIT_IN
              THEN <<InvalidFormat(key, val)>> ELSE <<>>)
             \o
             (IF hgt_val.ok
              THEN IF \/ (cap.unit = UNIT_CM /\ ~RangeContains(150, 193, hgt_val.val))
                      \/ (cap.unit = UNIT_IN /\ ~RangeContains(59, 76, hgt_val.val))
                   THEN <<OutOfRange(key, val)>> ELSE <<>>
              ELSE <<InvalidFormat(key, val)>>)

\* the match of one iteration of `for &key in PASSPORT_REQ_KEYS.iter()`:
\* the violations pushed for this key, the arms tried in source order
validate_key(fields, key) ==
    IF key \notin DOMAIN fields THEN <<MissingField(key)>>
    ELSE LET f == fields[key]
         IN  IF f.tag = "Num" /\ key = byr /\ ~RangeContains(1920, 2002, f.num)
             THEN <<OutOfRange(key, U32ToString(f.num))>>
             ELSE IF f.tag = "Num" /\ key = iyr /\ ~RangeContains(2010, 2020, f.num)
             THEN <<OutOfRange(key, U32ToString(f.num))>>
             ELSE IF f.tag = "Num" /\ key = eyr /\ ~RangeContains(2020, 2030, f.num)
             THEN <<OutOfRange(key, U32ToString(f.num))>>
             ELSE IF f.tag = "Str" /\ key = hgt
             THEN validate_hgt(key, f.str)
             ELSE IF f.tag = "Str" /\ key = hcl /\ ~HCL_REGEX_is_match(f.str)
             THEN <<InvalidFormat(key, f.str)>>
             ELSE IF f.tag = "Str" /\ key = ecl /\ f.str \notin ECL_VALS
             THEN <<InvalidFormat(key, f.str)>>
             ELSE IF f.tag = "Str" /\ key = pid /\ ~PID_REGEX_is_match(f.str)
             THEN <<InvalidFormat(key, f.str)>>
             ELSE <<>>

\* Result<(), Vec<PassportInvalid>>
ValidResult(invalids) ==
    [tag |-> IF invalids # <<>> THEN "Err" ELSE "Ok", invalids |-> invalids]

RECURSIVE validate_loop(_, _, _)
validate_loop(fields, keys, invalids) ==
    IF keys = <<>> THEN invalids
    ELSE validate_loop(fields, Tail(keys), invalids \o validate_key(fields, Head(keys)))

RECURSIVE first_violation(_, _)
first_violation(fields, keys) ==
    IF keys = <<>> THEN <<>>
    ELSE IF validate_key(fields, Head(keys)) # <<>>
         THEN validate_key(fields, Head(keys))
         ELSE first_violation(fields, Tail(keys))

\* validate returning at the first key that has a violation
validate_stop_at_first(fields) ==
    ValidResult(first_violation(fields, PASSPORT_REQ_KEYS))

\* Passport::validate(&self)
validate(fields) == ValidResult(validate_loop(fields, PASSPORT_REQ_KEYS, <<>>))

\* Passport::validate_simplified(&self)
validate_simplified(fields) ==
    LET missing(key) == IF key \notin DOMAIN fields THEN <<MissingField(key)>> ELSE <<>>
        RECURSIVE loop(_, _)
        loop(keys, invalids) ==
            IF keys = <<>> THEN invalids
            ELSE loop(Tail(keys), invalids \o missing(Head(keys)))
    IN  ValidResult(loop(PASSPORT_REQ_KEYS, <<>>))

-----------------------------------------------------------------------------
(* read_from_file *)

\* Result<Vec<Passport>, &'static str>, "Panic" when a process call panicked,
\* "None" while the function is still running
ReadRunning == [tag |-> "None", passports |-> <<>>, msg |-> ""]
ReadOk(ps) == [tag |-> "Ok", passports |-> ps, msg |-> ""]
ReadErr(m) == [tag |-> "Err", passports |-> <<>>, msg |-> m]
ReadPanic == [tag |-> "Panic", passports |-> <<>>, msg |-> ""]

\* the locals of read_from_file
Locals(st, ps, p) == [state |-> st, passports |-> ps, passport |-> p]

\* `if let ReadState::Empty = state { passport = Passport::new(); }`
start_passport_keep(loc) == loc.passport

start_passport(loc) == IF loc.state = "Empty" THEN NewFields ELSE loc.passport

\* what a failed process call does to the loop: `.map_err(..)?` returns
on_process_error_skip(loc, r) ==
    [exit |-> "continue", loc |-> loc, perr |-> r.err]

on_process_error(loc, r) ==
    [exit |-> r.tag, loc |-> loc, perr |-> r.err]

\* the body of `for line in lines`
read_line(loc, line) ==
    LET trimmed == trim(line)
    IN  IF trimmed = <<>>
        THEN [exit |-> "continue", perr |-> NoError,
              loc |-> Locals("Empty",
                             IF loc.state = "Line"
                             THEN Append(loc.passports, loc.passport)
                             ELSE loc.passports,
                             loc.passport)]
        ELSE LET r == process(start_passport(loc), trimmed)
             IN  IF r.tag = "Ok"
                 THEN [exit |-> "continue", perr |-> NoError,
                       loc |-> Locals("Line", loc.passports, r.fields)]
                 ELSE on_process_error(loc, r)

\* after the loop: the last record when the input does not end in a blank line
read_end_no_push(loc) == loc.passports

read_end(loc) ==
    IF loc.state = "Line" THEN Append(loc.passports, loc.passport) ELSE loc.passports

-----------------------------------------------------------------------------
(* Inputs *)

\* the most lines a file has
MaxLines == 4

\* the most tokens one Passport is given through direct process calls
MaxTokens == 3

T_ecl_gry == ecl \o <<":", "g", "r", "y">>
T_ecl_blu == ecl \o <<":", "b", "l", "u">>
T_ecl_a_b == ecl \o <<":", "a", ":", "b">>
T_ecl_none == ecl \o <<":">>
T_byr_1937 == byr \o <<":", "1", "9", "3", "7">>
T_byr_x == byr \o <<":", "x">>
T_byr_big == byr \o <<":", "4", "2", "9", "4", "9", "6", "7", "2", "9", "6">>
T_iyr_plus == iyr \o <<":", "+", "2", "0", "1", "0">>
T_xyz_1 == <<"x", "y", "z", ":", "1">>
T_xyz == <<"x", "y", "z">>

\* the lines of the files read_from_file is run on
FileLines ==
    { <<>>,
      <<" ", "\t">>,
      T_ecl_gry,
      <<" ">> \o T_byr_1937 \o <<"\t", " ">> \o T_ecl_blu \o <<"\r">>,
      T_xyz_1,
      T_byr_x \o <<" ">> \o T_xyz_1,
      pid }

Files == UNION {[1..n -> FileLines] : n \in 1..MaxLines}

\* the tokens handed to Passport::process directly
ProcessTokens ==
    { T_byr_1937, T_ecl_gry, T_ecl_a_b, T_ecl_none, T_iyr_plus,
      T_byr_x, T_byr_big, byr, T_xyz_1, T_xyz }

Separators == { <<" ">>, <<"\t", " ">> }

RECURSIVE Join(_, _)
Join(toks, sep) ==
    IF Len(toks) = 1 THEN toks[1] ELSE toks[1] \o sep \o Join(Tail(toks), sep)

\* a line of tokens, with white space before or after it when pad says so
LineOf(toks, sep, pad) ==
    (IF pad = "lead" THEN sep ELSE <<>>) \o Join(toks, sep) \o
    (IF pad = "trail" THEN sep ELSE <<>>)

\* the pieces \s+ cuts that line into: the tokens, and an empty piece where the
\* line starts or ends with white space
PiecesOf(toks, pad) ==
    (IF pad = "lead" THEN << <<>> >> ELSE <<>>) \o toks \o
    (IF pad = "trail" THEN << <<>> >> ELSE <<>>)

Year(a, b, c, d) == <<a, b, c, d>>

\* key:value tokens the validated records are built from
FieldTokens ==
    {byr \o <<":">> \o v : v \in {Year("1","9","2","0"), Year("2","0","0","2"),
                                  Year("2","0","0","3")}}
    \cup
    {iyr \o <<":">> \o v : v \in {Year("2","0","0","9"), Year("2","0","2","0")}}
    \cup
    {eyr \o <<":">> \o v : v \in {Year("2","0","2","0"), Year("2","0","3","1")}}
    \cup
    {ecl \o <<":">> \o v : v \in {<<"g","r","y">>, <<"x","y","z">>}}
    \cup
    {hcl \o <<":">> \o v : v \in {<<"#","1","2","a","b","c","f">>,
                                  <<"#","1","2","a","b","c","g">>}}
    \cup
    {pid \o <<":">> \o v : v \in {<<"0","1","2","3","4","5","6","7","8">>,
                                  <<"0","1","2","3","4","5","6","7","8","9">>}}
    \cup
    {cid \o <<":">> \o v : v \in {<<"1","4","7">>}}
    \cup
    {hgt \o <<":">> \o v : v \in
        { <<"1","5","0","c","m">>, <<"1","9","4","c","m">>,
          <<"7","6","i","n">>, <<"1","9","0","i","n">>,
          <<"1","9","0">>,
          <<"4","2","9","4","9","6","7","2","9","6","x","y">>,
          <<"4","2","9","4","9","6","7","2","9","6","c","m">> }}

-----------------------------------------------------------------------------
(* read_from_file run on a file *)

InitRead ==
    /\ lines \in Files
    /\ pc = "loop"
    /\ idx = 1
    /\ state = "Empty"
    /\ passports = <<>>
    /\ passport = NewFields
    /\ perr = NoError
    /\ result = ReadRunning
    /\ hist = <<>>
    /\ last = <<>>

\* one iteration of the loop; a failed process call ends the function
ReadLine ==
    /\ pc = "loop"
    /\ idx <= Len(lines)
    /\ LET r == read_line(Locals(state, passports, passport), lines[idx])
       IN  /\ state' = r.loc.state
           /\ passports' = r.loc.passports
           /\ passport' = r.loc.passport
           /\ perr' = r.perr
           /\ IF r.exit = "continue"
              THEN /\ idx' = idx + 1
                   /\ UNCHANGED <<pc, result>>
              ELSE /\ pc' = "done"
                   /\ result' = IF r.exit = "Err"
                                THEN ReadErr("passport process error")
                                ELSE ReadPanic
                   /\ UNCHANGED idx
    /\ UNCHANGED <<lines, hist, last>>

\* the code after the loop, and `Ok(passports)`
ReadEnd ==
    /\ pc = "loop"
    /\ idx > Len(lines)
    /\ passports' = read_end(Locals(state, passports, passport))
    /\ result' = ReadOk(passports')
    /\ pc' = "done"
    /\ UNCHANGED <<lines, idx, state, passport, perr, hist, last>>

NextRead == ReadLine \/ ReadEnd

SpecRead == InitRead /\ [][NextRead]_vars

-----------------------------------------------------------------------------
(* Passport::new() followed by direct calls of process *)

InitProcess ==
    /\ lines = <<>>
    /\ pc = "new"
    /\ idx = 0
    /\ state = "Empty"
    /\ passports = <<>>
    /\ passport = NewFields
    /\ perr = NoError
    /\ result = ProcOk(NewFields)
    /\ hist = <<>>
    /\ last = <<>>

\* passport.process(line) on the record the last call returned; idx counts the
\* tokens given so far, hist the pieces of the lines that returned Ok, last the
\* pieces of this line
CallProcess ==
    /\ pc \in {"new", "process"}
    /\ result.tag = "Ok"
    /\ \E n \in 1..(MaxTokens - idx) :
       \E toks \in [1..n -> ProcessTokens] :
       \E sep \in Separators :
       \E pad \in {"none", "lead", "trail"} :
          LET r == process(passport, LineOf(toks, sep, pad))
          IN  /\ result' = r
              /\ passport' = r.fields
              /\ perr' = r.err
              /\ last' = PiecesOf(toks, pad)
              /\ hist' = IF r.tag = "Ok" THEN hist \o PiecesOf(toks, pad) ELSE hist
              /\ idx' = idx + n
              /\ pc' = "process"
    /\ UNCHANGED <<lines, state, passports>>

NextProcess == CallProcess

SpecProcess == InitProcess /\ [][NextProcess]_vars

-----------------------------------------------------------------------------
(* A record built by process calls, then validated *)

InitValidate ==
    /\ lines = <<>>
    /\ pc = "new"
    /\ idx = 0
    /\ state = "Empty"
    /\ passports = <<>>
    /\ passport = NewFields
    /\ perr = NoError
    /\ result = ProcOk(NewFields)
    /\ hist = <<>>
    /\ last = <<>>

\* passport = passport.process(token), while the record is being built
\* (validate only borrows the record, so a process call after it would reach
\* no record that is not reached before it)
AddField ==
    /\ pc \in {"new", "process"}
    /\ \E tok \in FieldTokens :
          LET r == process(passport, tok)
          IN  /\ r.tag = "Ok"
              /\ result' = r
              /\ passport' = r.fields
    /\ pc' = "process"
    /\ UNCHANGED <<lines, idx, state, passports, perr, hist, last>>

\* passport.validate()
Validate ==
    /\ result' = validate(passport)
    /\ pc' = "validate"
    /\ UNCHANGED <<lines, idx, state, passports, passport, perr, hist, last>>

\* passport.validate_simplified()
ValidateSimplified ==
    /\ result' = validate_simplified(passport)
    /\ pc' = "validate_simplified"
    /\ UNCHANGED <<lines, idx, state, passports, passport, perr, hist, last>>

NextValidate == AddField \/ Validate \/ ValidateSimplified

SpecValidate == InitValidate /\ [][NextValidate]_vars

-----------------------------------------------------------------------------
(* Vocabulary of the properties *)

CatalogKeys == {byr, eyr, iyr, ecl, hcl, hgt, pid, cid}
NumericKeys == {byr, eyr, iyr}
RequiredOrder == <<byr, eyr, iyr, ecl, hcl, hgt, pid>>

\* a line is blank when it holds white space only
IsBlank(line) == \A i \in 1..Len(line) : line[i] \in WhiteChars

\* positions of the colons of a token
Colons(tok) == {i \in 1..Len(tok) : tok[i] = ":"}
FirstColon(tok) == CHOOSE i \in Colons(tok) : \A j \in Colons(tok) : i <= j

\* the text before the first colon (the whole token when it has none)
KeyOf(tok) ==
    IF Colons(tok) = {} THEN tok ELSE SubSeq(tok, 1, FirstColon(tok) - 1)

\* everything after the first colon
AfterFirstColon(tok) == SubSeq(tok, FirstColon(tok) + 1, Len(tok))

\* the last piece of a sequence of tokens that carries the key
LastWith(toks, key) ==
    CHOOSE i \in 1..Len(toks) :
        /\ KeyOf(toks[i]) = key
        /\ \A j \in 1..Len(toks) : KeyOf(toks[j]) = key => j <= i

\* the outcome of process on a line of a file, as the reader calls it
LineOutcome(line) == process(NewFields, trim(line))

\* the first lines of the maximal runs of non-blank lines
RunStarts(ls) ==
    {i \in 1..Len(ls) : ~IsBlank(ls[i]) /\ (i = 1 \/ IsBlank(ls[i - 1]))}

\* the last line of the run that starts at line s
RunEnd(ls, s) ==
    CHOOSE e \in s..Len(ls) :
        /\ \A k \in s..e : ~IsBlank(ls[k])
        /\ (e = Len(ls) \/ IsBlank(ls[e + 1]))

\* the start of the i-th run
NthStart(ls, i) ==
    CHOOSE s \in RunStarts(ls) :
        Cardinality({t \in RunStarts(ls) : t <= s}) = i

RECURSIVE ProcessAll(_, _, _, _)
\* lines from..to processed in order into fields (every one of them parses)
ProcessAll(fields, ls, from, to) ==
    IF from > to THEN fields
    ELSE ProcessAll(process(fields, trim(ls[from])).fields, ls, from + 1, to)

AllLinesParse ==
    \A i \in 1..Len(lines) : ~IsBlank(lines[i]) => LineOutcome(lines[i]).tag = "Ok"

-----------------------------------------------------------------------------
(* C1 *)

\* C1: when every non-blank line parses, read_from_file returns Ok with as many
\* records as there are maximal runs of non-blank lines, whatever blank lines
\* lead, trail or repeat, and also when the last line is not blank; a file of
\* blank lines only gives Ok with no record.
C1_GroupCount ==
    (pc = "done" /\ AllLinesParse) =>
        /\ result.tag = "Ok"
        /\ Len(result.passports) = Cardinality(RunStarts(lines))

\* a file that starts with a blank line, does not end with one, and has two runs
C1_Witness ==
    /\ pc = "done"
    /\ AllLinesParse
    /\ IsBlank(lines[1])
    /\ ~IsBlank(lines[Len(lines)])
    /\ Cardinality(RunStarts(lines)) = 2
    /\ Len(result.passports) = 2

-----------------------------------------------------------------------------
(* C10 *)

\* C10: when read_from_file succeeds, the i-th record returned is exactly what
\* processing the lines of the i-th run, in order, into an empty record gives
\* (so nothing of another run is in it), there is one record per run, and no
\* record is empty.
C10_Isolated ==
    (pc = "done" /\ result.tag = "Ok") =>
        /\ Len(result.passports) = Cardinality(RunStarts(lines))
        /\ \A i \in 1..Len(result.passports) :
              LET s == NthStart(lines, i)
              IN  /\ result.passports[i] =
                        ProcessAll(NewFields, lines, s, RunEnd(lines, s))
                  /\ DOMAIN result.passports[i] # {}

\* two records, the first with a field the second does not have
C10_Witness ==
    /\ pc = "done"
    /\ result.tag = "Ok"
    /\ Len(result.passports) = 2
    /\ byr \in DOMAIN result.passports[1]
    /\ byr \notin DOMAIN result.passports[2]

-----------------------------------------------------------------------------
(* C4 *)

\* the non-blank lines process does not return Ok for
BadLines == {i \in 1..Len(lines) : ~IsBlank(lines[i]) /\ LineOutcome(lines[i]).tag # "Ok"}

FirstBad == CHOOSE i \in BadLines : \A j \in BadLines : i <= j

\* C4: a parse error returned by process on a line ends read_from_file with Err
\* and no record, also when earlier records were already complete; Ok is
\* returned only when every non-blank line parsed.
C4_ErrorAborts ==
    /\ pc = "loop" => perr = NoError
    /\ pc = "done" =>
          /\ result.tag = "Ok" => BadLines = {}
          /\ perr # NoError => result = ReadErr("passport process error")
          /\ (BadLines # {} /\ LineOutcome(lines[FirstBad]).tag = "Err") =>
                /\ result = ReadErr("passport process error")
                /\ perr = LineOutcome(lines[FirstBad]).err

\* the failing line comes after a record that was already complete
C4_Witness ==
    /\ pc = "done"
    /\ result.tag = "Err"
    /\ perr # NoError
    /\ passports # <<>>
    /\ result.passports = <<>>

-----------------------------------------------------------------------------
(* C2 *)

\* the tokens of the non-blank lines, in input order
RECURSIVE FileTokens(_, _)
FileTokens(ls, i) ==
    IF i > Len(ls) THEN <<>>
    ELSE (IF IsBlank(ls[i]) THEN <<>> ELSE SPACES_split(trim(ls[i])))
         \o FileTokens(ls, i + 1)

\* a token process accepts: a catalog key, a colon, and for a numeric key a
\* value that parses
Accepted(tok) ==
    /\ KeyOf(tok) \in CatalogKeys
    /\ Colons(tok) # {}
    /\ KeyOf(tok) \in NumericKeys => parse_u32(split_colon(tok)[2]).ok

Rejected(toks) == {i \in 1..Len(toks) : ~Accepted(toks[i])}

FirstRejected(toks) == CHOOSE i \in Rejected(toks) : \A j \in Rejected(toks) : i <= j

\* C2 as stated: every token with a key outside the catalog makes the read fail
\* with UnknownKey carrying that key.
C2_Original ==
    pc = "done" =>
        \A i \in 1..Len(FileTokens(lines, 1)) :
            LET t == FileTokens(lines, 1)[i]
            IN  KeyOf(t) \notin CatalogKeys =>
                    result.tag = "Err" /\ perr = UnknownKey(KeyOf(t))

\* C2 amended: the first token of the input that process does not accept decides
\* the failure; when that token's key is outside the catalog, process returns
\* UnknownKey carrying that key and read_from_file returns its flattened Err.
C2_FirstFailure ==
    pc = "done" =>
        LET toks == FileTokens(lines, 1)
        IN  (Rejected(toks) # {} /\ KeyOf(toks[FirstRejected(toks)]) \notin CatalogKeys) =>
                /\ perr = UnknownKey(KeyOf(toks[FirstRejected(toks)]))
                /\ result = ReadErr("passport process error")

\* an unknown key met after a complete record
C2_Witness ==
    /\ pc = "done"
    /\ perr = UnknownKey(<<"x", "y", "z">>)
    /\ result.tag = "Err"
    /\ passports # <<>>

-----------------------------------------------------------------------------
(* C3 *)

\* C3: process always returns, either Ok with the record or Err with
\* UnknownKey or UnparsableU32.
C3_Total ==
    pc = "process" =>
        \/ result.tag = "Ok" /\ result.err = NoError
        \/ result.tag = "Err" /\ result.err.kind \in {"UnknownKey", "UnparsableU32"}

-----------------------------------------------------------------------------
(* C5 *)

\* the field process stores for a token: the text between the first and the
\* second colon, as a number for a numeric key
FieldOf(tok) ==
    IF KeyOf(tok) \in NumericKeys
    THEN Num(parse_u32(split_colon(tok)[2]).val)
    ELSE Str(split_colon(tok)[2])

\* C5: a record holds one entry for each key met, and the entry is the field of
\* the key's last occurrence among all the tokens of all the lines processed.
C5_LastWins ==
    (pc = "process" /\ result.tag = "Ok") =>
        /\ DOMAIN passport = {KeyOf(hist[i]) : i \in 1..Len(hist)}
        /\ \A k \in DOMAIN passport : passport[k] = FieldOf(hist[LastWith(hist, k)])

\* a key given twice with different values, and another key beside it
C5_Witness ==
    /\ pc = "process"
    /\ result.tag = "Ok"
    /\ \E i, j \in 1..Len(hist) :
          /\ i < j
          /\ KeyOf(hist[i]) = KeyOf(hist[j])
          /\ FieldOf(hist[i]) # FieldOf(hist[j])
    /\ Cardinality(DOMAIN passport) = 2

-----------------------------------------------------------------------------
(* C8 *)

\* C8: the value stored for a text-valued key is everything after the first
\* colon of the token.
C8_FullRemainder ==
    (pc = "process" /\ result.tag = "Ok") =>
        \A k \in DOMAIN passport \ NumericKeys :
            passport[k].str = AfterFirstColon(hist[LastWith(hist, k)])

-----------------------------------------------------------------------------
(* Validity of a field, as the rules state it *)

RECURSIVE Decimal(_, _)
\* the number a digit text denotes, capped at 1000000 (every bound is smaller)
Decimal(digits, acc) ==
    IF digits = <<>> THEN acc
    ELSE LET n == acc * 10 + DigitVal(Head(digits))
         IN  Decimal(Tail(digits), IF n > 1000000 THEN 1000000 ELSE n)

\* the number a u32 field holds, capped the same way
Held(v) == IF v.hi >= 10 THEN 1000000 ELSE v.hi * 100000 + v.lo

\* digits followed by exactly this unit
HasUnit(val, unit) ==
    /\ Len(val) >= 3
    /\ SubSeq(val, Len(val) - 1, Len(val)) = unit
    /\ AllIn(SubSeq(val, 1, Len(val) - 2), DigitChars)

HgtNumber(val) == Decimal(SubSeq(val, 1, Len(val) - 2), 0)

ValidField(fields, k) ==
    LET f == fields[k]
    IN  CASE k = byr -> f.tag = "Num" /\ Held(f.num) \in 1920..2002
          [] k = iyr -> f.tag = "Num" /\ Held(f.num) \in 2010..2020
          [] k = eyr -> f.tag = "Num" /\ Held(f.num) \in 2020..2030
          [] k = hgt ->
                \/ HasUnit(f.str, <<"c", "m">>) /\ HgtNumber(f.str) \in 150..193
                \/ HasUnit(f.str, <<"i", "n">>) /\ HgtNumber(f.str) \in 59..76
          [] k = hcl ->
                /\ Len(f.str) = 7
                /\ f.str[1] = "#"
                /\ \A i \in 2..7 : f.str[i] \in HexChars
          [] k = ecl ->
                f.str \in {<<"a", "m", "b">>, <<"b", "l", "u">>, <<"b", "r", "n">>,
                           <<"g", "r", "y">>, <<"g", "r", "n">>, <<"h", "z", "l">>,
                           <<"o", "t", "h">>}
          [] k = pid -> Len(f.str) = 9 /\ \A i \in 1..9 : f.str[i] \in DigitChars

\* a field that is well formed and parsed as a number, the number outside its range
OutOfRangeField(fields, k) ==
    LET f == fields[k]
    IN  CASE k \in NumericKeys -> ~ValidField(fields, k)
          [] k = hgt ->
                /\ HasUnit(f.str, <<"c", "m">>) \/ HasUnit(f.str, <<"i", "n">>)
                /\ parse_u32(SubSeq(f.str, 1, Len(f.str) - 2)).ok
                /\ ~ValidField(fields, k)
          [] OTHER -> FALSE

Required == {RequiredOrder[i] : i \in 1..Len(RequiredOrder)}
AbsentKeys(fields) == Required \ DOMAIN fields
RangeKeys(fields) == {k \in Required \cap DOMAIN fields : OutOfRangeField(fields, k)}

\* the kind and key of each violation, in order
Shape(invalids) == [i \in 1..Len(invalids) |-> <<invalids[i].kind, invalids[i].key>>]

RECURSIVE Expected(_, _)
\* MissingField for the absent keys and OutOfRange for the out-of-range ones, in
\* the order of keys
Expected(fields, keys) ==
    IF keys = <<>> THEN <<>>
    ELSE (IF Head(keys) \notin DOMAIN fields THEN << <<"MissingField", Head(keys)>> >>
          ELSE IF OutOfRangeField(fields, Head(keys))
               THEN << <<"OutOfRange", Head(keys)>> >>
               ELSE <<>>)
         \o Expected(fields, Tail(keys))

-----------------------------------------------------------------------------
(* C6 *)

\* the case of C6: three required keys absent, one present required field out
\* of range, the other present required fields valid
C6_Case ==
    /\ Cardinality(AbsentKeys(passport)) = 3
    /\ Cardinality(RangeKeys(passport)) = 1
    /\ \A k \in (Required \cap DOMAIN passport) \ RangeKeys(passport) :
          ValidField(passport, k)

-----------------------------------------------------------------------------
(* C7 *)

\* the violations reported for one key
About(invalids, k) == SelectSeq(invalids, LAMBDA x : x.key = k)

\* C7: an hgt text whose unit is not exactly cm or in gets exactly one
\* violation, InvalidFormat("hgt", value), whatever the length of its digits.
C7_OneInvalidFormat ==
    (/\ pc = "validate"
     /\ hgt \in DOMAIN passport
     /\ ~HasUnit(passport[hgt].str, <<"c", "m">>)
     /\ ~HasUnit(passport[hgt].str, <<"i", "n">>)) =>
        About(result.invalids, hgt) = <<InvalidFormat(hgt, passport[hgt].str)>>

-----------------------------------------------------------------------------
(* C9 *)

WithoutCid(fields) == [k \in DOMAIN fields \ {cid} |-> fields[k]]

\* C9: validate returns Ok exactly when the seven required keys are present and
\* each of their fields is valid; cid has no part in the result.
C9_ValidIff ==
    pc = "validate" =>
        /\ result.tag = "Ok" <=>
              \A k \in Required : k \in DOMAIN passport /\ ValidField(passport, k)
        /\ result = validate(WithoutCid(passport))

\* a valid record that carries cid
C9_Witness ==
    /\ pc = "validate"
    /\ result.tag = "Ok"
    /\ cid \in DOMAIN passport
    /\ Cardinality(DOMAIN passport) = 8
====
